---- MODULE Spec2Model ----
(***************************************************************************)
(* Model of multi-model-endpoint/container/model_handler.py: the           *)
(* ModelHandler object (_service), its lifecycle methods and the           *)
(* module-level handle entry point.  File names are token sequences, so    *)
(* that globbing, prefix derivation and path construction are computed.    *)
(***************************************************************************)
EXTENDS Integers, Sequences, FiniteSets, TLC

(* ---------- bounds ---------- *)
MaxBatch == 2
MaxMatches == 2

(* ---------- values ---------- *)
Texts == {"t1", "t2"}

sym_file_suffix == "-params.json"
model_suffix == "-model"

Prefixes == {"TopicalPageRank", "DocSim", "Other"}

ParamKeys == {"grammar", "language", "normalization", "window", "max_count"}

OK == "OK"
IndexError == "IndexError"
MissingArtifact == "RuntimeError: Missing file"
UnsupportedModel == "RuntimeError: Model not supported"
InitializationFailure == "MemoryError"
JSONDecodeError == "JSONDecodeError"
KeyError == "KeyError"
TypeError == "TypeError"
UnboundLocalError == "UnboundLocalError"
UnicodeDecodeError == "UnicodeDecodeError"

NoneStr == [tag |-> "None", v |-> <<>>]
Str(s) == [tag |-> "str", v |-> s]
NoneParams == [tag |-> "None", keys |-> {}]
Dict(keys) == [tag |-> "dict", keys |-> keys]
NoneRet == [tag |-> "None", items |-> <<>>]
List(items) == [tag |-> "list", items |-> items]

(* ---------- the model directory, as the handler observes it ---------- *)
ParamNames == {<<p, sym_file_suffix>> : p \in Prefixes}
                 \cup {<<"DocSim", sym_file_suffix, sym_file_suffix>>}

\* what a directory entry is: absent, a sub-directory, a regular file that
\* does not parse as JSON, or a regular file holding a JSON object with all
\* or only some of the keys the ranking mode reads
Kinds == {"none", "dir", "garbage", "full", "partial"}
FileKinds == {"garbage", "full", "partial"}

KeysOf(kind) == IF kind = "full" THEN ParamKeys ELSE ParamKeys \ {"max_count"}

SeqsUpTo(S, n) == UNION {[1..k -> S] : k \in 0..n}

\* os.path.basename(f).split(sym_file_suffix)[0]
SplitFirst(name) ==
    LET idx == {i \in 1..Len(name) : name[i] = sym_file_suffix}
        first == IF idx = {} THEN Len(name) + 1
                 ELSE CHOOSE i \in idx : \A j \in idx : i <= j
    IN  SubSeq(name, 1, first - 1)

\* "{}-{}".format(checkpoint_prefix, "params.json")
ParamsPath(prefix) == prefix \o <<sym_file_suffix>>
\* "{}-{}".format(checkpoint_prefix, "model")
ModelPath(prefix) == prefix \o <<model_suffix>>

\* glob.glob("<model_dir>/*-params.json") returns the entries (files and
\* directories) whose name ends with the suffix, in no particular order
Globs ==
    {g \in SeqsUpTo(ParamNames, MaxMatches) :
        \A i, j \in 1..Len(g) : g[i] = g[j] => i = j}

\* <prefix>-params.json, for the prefix of the first match, exists exactly
\* when glob lists it
Consistent(c) ==
    (c.params # "none") <=>
        (Len(c.glob) > 0 /\ \E i \in 1..Len(c.glob) :
                               c.glob[i] = ParamsPath(SplitFirst(c.glob[1])))

\* a context: the list glob returns for context's model_dir, what is at
\* <prefix>-params.json and whether <prefix>-model is a regular file
Contexts ==
    UNION {IF Consistent(c) THEN {c} ELSE {} :
             c \in [glob : Globs, params : Kinds, model_is_file : BOOLEAN]}

NoContext == [glob |-> <<>>, params |-> "none", model_is_file |-> FALSE]

Supported(model_type) ==
    model_type = Str(<<"TopicalPageRank">>) \/ model_type = Str(<<"DocSim">>)

(* ---------- ModelHandler ---------- *)
NewHandler ==
    [initialized |-> FALSE, model |-> NoneStr, model_type |-> NoneStr,
     model_params |-> NoneParams]

\* as get_model_files_prefix, but taking the last match instead of the first
get_model_files_prefix_last(g) ==
    IF Len(g) = 0 THEN [err |-> IndexError, prefix |-> <<>>]
    ELSE [err |-> OK, prefix |-> SplitFirst(g[Len(g)])]

\* get_model_files_prefix: glob(...)[0], then strip the suffix
get_model_files_prefix(g) ==
    IF Len(g) = 0 THEN [err |-> IndexError, prefix |-> <<>>]
    ELSE [err |-> OK, prefix |-> SplitFirst(g[1])]

\* as read_model_params, without the isfile check: open() raises instead
read_model_params_unchecked(self, ctx) ==
    IF ctx.params \notin FileKinds THEN [err |-> "OSError", self |-> self]
    ELSE IF ctx.params = "garbage" THEN [err |-> JSONDecodeError, self |-> self]
    ELSE [err |-> OK, self |-> [self EXCEPT !.model_params = Dict(KeysOf(ctx.params))]]

\* read_model_params
read_model_params(self, ctx) ==
    IF ctx.params \notin FileKinds THEN [err |-> MissingArtifact, self |-> self]
    ELSE IF ctx.params = "garbage" THEN [err |-> JSONDecodeError, self |-> self]
    ELSE [err |-> OK, self |-> [self EXCEPT !.model_params = Dict(KeysOf(ctx.params))]]

\* as load_model, with the except clause re-raising the error it caught
load_model_reraise(self, ctx, prefix) ==
    IF Supported(self.model_type)
    THEN LET s == [self EXCEPT !.model = Str(ModelPath(prefix))] IN
         IF ~ctx.model_is_file
         THEN [err |-> MissingArtifact, logged |-> MissingArtifact, self |-> s]
         ELSE [err |-> OK, logged |-> OK, self |-> s]
    ELSE [err |-> UnsupportedModel, logged |-> UnsupportedModel, self |-> self]

\* the try/except block of initialize
load_model(self, ctx, prefix) ==
    IF Supported(self.model_type)
    THEN LET s == [self EXCEPT !.model = Str(ModelPath(prefix))] IN
         IF ~ctx.model_is_file
         THEN [err |-> InitializationFailure, logged |-> MissingArtifact, self |-> s]
         ELSE [err |-> OK, logged |-> OK, self |-> s]
    ELSE [err |-> InitializationFailure, logged |-> UnsupportedModel, self |-> self]

\* initialize(context)
initialize(self, ctx) ==
    LET s1 == [self EXCEPT !.initialized = TRUE]
        p  == get_model_files_prefix(ctx.glob)
    IN  IF p.err # OK
        THEN [err |-> p.err, logged |-> OK, self |-> s1, prefix |-> NoneStr]
        ELSE
        LET s2 == [s1 EXCEPT !.model_type = Str(p.prefix)]
            r  == read_model_params(s2, ctx)
        IN  IF r.err # OK
            THEN [err |-> r.err, logged |-> OK, self |-> r.self, prefix |-> Str(p.prefix)]
            ELSE LET m == load_model(r.self, ctx, p.prefix) IN
                 [err |-> m.err, logged |-> m.logged, self |-> m.self,
                  prefix |-> Str(p.prefix)]

(* ---------- requests ---------- *)
Entries ==
    {[kind |-> "utf8", text |-> t] : t \in Texts} \cup {[kind |-> "badutf8", text |-> ""]}

Batches == SeqsUpTo(Entries, MaxBatch)
TextLists == SeqsUpTo(Texts, MaxBatch)

\* data.get('body').decode("utf-8")
Decode(entry) ==
    IF entry.kind = "badutf8" THEN [err |-> UnicodeDecodeError, text |-> ""]
    ELSE [err |-> OK, text |-> entry.text]

\* preprocess
preprocess(self, request) ==
    IF Supported(self.model_type)
    THEN LET bad == {i \in 1..Len(request) : Decode(request[i]).err # OK} IN
         IF bad # {}
         THEN [err |-> Decode(request[CHOOSE i \in bad : \A j \in bad : i <= j]).err,
               ret |-> NoneRet]
         ELSE [err |-> OK,
               ret |-> List([i \in 1..Len(request) |-> Decode(request[i]).text])]
    ELSE [err |-> UnsupportedModel, ret |-> NoneRet]

NoRun == <<>>

\* an extractor constructed inside the loop, one per text
ExtractorFresh(i) == i

\* the extractor object bound to `extractor` while the i-th text of a batch
\* is processed: the one constructed before the loop
ExtractorFor(i) == 1

\* the texts load_document has put into the extractor of step i, up to and
\* including step i
LoadedInto(model_input, used, i) ==
    LET Same(j) == used[j] = used[i]
        idx == SelectSeq([j \in 1..i |-> j], Same)
    IN  [k \in 1..Len(idx) |-> model_input[idx[k]]]

\* the ranking branch of inference; what an extractor returns is a function
\* of the documents loaded into it so far and of the lda model
rank(self, model_input) ==
    LET n == Len(model_input)
        used == [i \in 1..n |-> ExtractorFor(i)]
    IN  [err |-> OK,
         ret |-> List([i \in 1..n |->
                    [extractor |-> used[i],
                     loaded |-> LoadedInto(model_input, used, i),
                     lda_model |-> self.model.v]]),
         run |-> used]

\* inference
inference(self, model_input) ==
    IF self.model_type = Str(<<"TopicalPageRank">>)
    THEN IF self.model_params.tag = "None"
         THEN [err |-> TypeError, ret |-> NoneRet, run |-> NoRun]
         ELSE IF ~(ParamKeys \subseteq self.model_params.keys)
         THEN [err |-> KeyError, ret |-> NoneRet, run |-> NoRun]
         ELSE rank(self, model_input)
    ELSE IF self.model_type = Str(<<"DocSim">>)
    THEN [err |-> UnboundLocalError, ret |-> NoneRet, run |-> NoRun]
    ELSE [err |-> UnsupportedModel, ret |-> NoneRet, run |-> NoRun]

\* as postprocess, without the model type check
postprocess_unchecked(self, inference_output) ==
    [err |-> OK, ret |-> List(inference_output)]

\* postprocess
postprocess(self, inference_output) ==
    IF Supported(self.model_type)
    THEN [err |-> OK, ret |-> List(inference_output)]
    ELSE [err |-> UnsupportedModel, ret |-> NoneRet]

\* ModelHandler.handle
service_handle(self, data) ==
    LET a == preprocess(self, data) IN
    IF a.err # OK
    THEN [err |-> a.err, ret |-> NoneRet, run |-> NoRun, calls |-> <<"preprocess">>]
    ELSE LET b == inference(self, a.ret.items) IN
         IF b.err # OK
         THEN [err |-> b.err, ret |-> NoneRet, run |-> b.run,
               calls |-> <<"preprocess", "inference">>]
         ELSE LET c == postprocess(self, b.ret.items) IN
              [err |-> c.err, ret |-> c.ret, run |-> b.run,
               calls |-> <<"preprocess", "inference", "postprocess">>]

(* ---------- state ---------- *)
\* the four fields of _service, the outcome of the latest initialize
\* ("never" before the first) and the record of the latest call
VARIABLES initialized, model, model_type, model_params, init_err, last

vars == <<initialized, model, model_type, model_params, init_err, last>>
fields == <<initialized, model, model_type, model_params>>

Self ==
    [initialized |-> initialized, model |-> model, model_type |-> model_type,
     model_params |-> model_params]

SetSelf(s) ==
    /\ initialized' = s.initialized
    /\ model' = s.model
    /\ model_type' = s.model_type
    /\ model_params' = s.model_params

NoData == [tag |-> "None", items |-> <<>>]
Datas == {NoData} \cup {List(b) : b \in Batches}

NoLoad == [ctx |-> NoContext, prefix |-> NoneStr, logged |-> OK]

\* the record of the latest call: what was called on what, and what came back;
\* load.ctx is the context of a direct initialize call
Last(op, arg, r, calls, load, run) ==
    [op |-> op, arg |-> arg, pre_initialized |-> initialized, err |-> r.err, ret |-> r.ret,
     calls |-> calls, load |-> load, run |-> run]

Init ==
    /\ initialized = NewHandler.initialized
    /\ model = NewHandler.model
    /\ model_type = NewHandler.model_type
    /\ model_params = NewHandler.model_params
    /\ init_err = "never"
    /\ last = [op |-> "none", arg |-> NoData, pre_initialized |-> FALSE, err |-> OK, ret |-> NoneRet, calls |-> <<>>,
               load |-> NoLoad, run |-> NoRun]

\* _service.initialize(context)
Initialize ==
    \E ctx \in Contexts :
        LET r == initialize(Self, ctx) IN
        /\ SetSelf(r.self)
        /\ init_err' = r.err
        /\ last' = Last("initialize", NoData, [err |-> r.err, ret |-> NoneRet], <<>>,
                        [ctx |-> ctx, prefix |-> r.prefix, logged |-> r.logged], NoRun)

\* _service.preprocess(request)
Preprocess ==
    \E request \in Batches :
        /\ UNCHANGED <<fields, init_err>>
        /\ last' = Last("preprocess", List(request), preprocess(Self, request),
                        <<>>, NoLoad, NoRun)

\* _service.inference(model_input)
Inference ==
    \E model_input \in TextLists :
        LET r == inference(Self, model_input) IN
        /\ UNCHANGED <<fields, init_err>>
        /\ last' = Last("inference", List(model_input), r, <<>>, NoLoad, r.run)

\* _service.postprocess(inference_output)
Postprocess ==
    \E inference_output \in TextLists :
        /\ UNCHANGED <<fields, init_err>>
        /\ last' = Last("postprocess", List(inference_output),
                        postprocess(Self, inference_output), <<>>, NoLoad, NoRun)

\* _service.handle(data, context)
ServiceHandle ==
    \E data \in Batches :
        LET r == service_handle(Self, data) IN
        /\ UNCHANGED <<fields, init_err>>
        /\ last' = Last("ModelHandler.handle", List(data), r, r.calls, NoLoad, r.run)

\* as dispatch, without the test for absent data
dispatch_unchecked(self, data) == service_handle(self, data.items)

\* the module-level handle after its lazy initialization
dispatch(self, data) ==
    IF data.tag = "None"
    THEN [err |-> OK, ret |-> NoneRet, run |-> NoRun, calls |-> <<>>]
    ELSE service_handle(self, data.items)

\* as HandleInitialized, but initializing on every call
HandleReinitializes ==
    /\ initialized
    /\ \E i \in {initialize(Self, ctx) : ctx \in Contexts} : \E data \in Datas :
        LET r == IF i.err # OK THEN [err |-> i.err, ret |-> NoneRet, run |-> NoRun,
                                      calls |-> <<>>]
                 ELSE dispatch(i.self, data) IN
        /\ SetSelf(i.self)
        /\ init_err' = i.err
        /\ last' = Last("handle", data, r, <<"initialize">> \o r.calls,
                        [ctx |-> NoContext, prefix |-> i.prefix, logged |-> i.logged], r.run)

\* handle(data, context) on a handler whose initialized flag is set
HandleInitialized ==
    /\ initialized
    /\ \E data \in Datas :
        LET r == dispatch(Self, data) IN
        /\ UNCHANGED <<fields, init_err>>
        /\ last' = Last("handle", data, r, r.calls, NoLoad, r.run)

\* handle(data, context) on a handler whose initialized flag is not set
HandleUninitialized ==
    /\ ~initialized
    /\ \E i \in {initialize(Self, ctx) : ctx \in Contexts} : \E data \in Datas :
        LET load == [ctx |-> NoContext, prefix |-> i.prefix, logged |-> i.logged] IN
        /\ SetSelf(i.self)
        /\ init_err' = i.err
        /\ IF i.err # OK
           THEN last' = Last("handle", data, [err |-> i.err, ret |-> NoneRet],
                             <<"initialize">>, load, NoRun)
           ELSE LET r == dispatch(i.self, data) IN
                last' = Last("handle", data, r, <<"initialize">> \o r.calls, load, r.run)

\* handle(data, context)
ModuleHandle == HandleInitialized \/ HandleUninitialized

\* serving: the entry point and the stages it runs, called in any order
Next ==
    \/ ModuleHandle
    \/ Preprocess
    \/ Inference
    \/ Postprocess
    \/ ServiceHandle

Spec == Init /\ [][Next]_vars

\* loading: initialize called on any context, any number of times, between
\* calls of the entry point
NextLoad ==
    \/ Initialize
    \/ ModuleHandle

SpecLoad == Init /\ [][NextLoad]_vars

(* ---------- properties ---------- *)
InitCall == last.op = "initialize"
Ctx == last.load.ctx
Ranking == Str(<<"TopicalPageRank">>)
Similarity == Str(<<"DocSim">>)

HandleOnInitialized == last.op = "handle" /\ last.pre_initialized

\* C1 (as stated): on an initialized handler, here one that initialize has
\* loaded the ranking model into without error, handle called with an empty
\* batch, [] or None alike, returns None and invokes none of preprocess,
\* inference, postprocess
C1_EmptyOrAbsentShortCircuits ==
    (/\ HandleOnInitialized
     /\ init_err = OK
     /\ model_type = Ranking
     /\ ParamKeys \subseteq model_params.keys
     /\ Len(last.arg.items) = 0)
        => (last.err = OK /\ last.ret.tag = "None" /\ last.calls = <<>>)

\* C1 (amended): on an initialized handler, handle called with None returns
\* None and invokes no stage; called with a list, the empty list included,
\* it invokes preprocess
C1_OnlyAbsentShortCircuits ==
    HandleOnInitialized =>
        /\ last.arg.tag = "None" =>
              (last.err = OK /\ last.ret.tag = "None" /\ last.calls = <<>>)
        /\ last.arg.tag = "list" =>
              (Len(last.calls) >= 1 /\ last.calls[1] = "preprocess")

C1_Witness ==
    /\ HandleOnInitialized
    /\ init_err = OK
    /\ last.arg.tag = "None"
    /\ last.ret.tag = "None"
    /\ last.calls = <<>>

\* the case of C2: a single *-params.json entry, a regular file, whose prefix
\* is neither recognized identifier
C2_Case ==
    /\ InitCall
    /\ Len(Ctx.glob) = 1
    /\ Ctx.params \in FileKinds
    /\ last.load.prefix \notin {Ranking, Similarity}

\* C2 (as stated): initialize on a directory whose single params file yields
\* an unrecognized prefix raises the unsupported-model error
C2_RaisesUnsupportedModel == C2_Case => last.err = UnsupportedModel

\* C2 (amended): when that params file holds a JSON document, initialize
\* raises the generic MemoryError, the same as for a missing model file, and
\* the unsupported-model error is only logged
C2_RaisesGenericError ==
    (C2_Case /\ Ctx.params # "garbage")
        => (last.err = InitializationFailure /\ last.load.logged = UnsupportedModel)

C2_Witness ==
    /\ C2_Case
    /\ Ctx.params = "full"
    /\ last.err = InitializationFailure
    /\ last.load.logged = UnsupportedModel
    /\ model_type = Str(<<"Other">>)

\* the cases of C3: no regular file <prefix>-params.json; ranking prefix with
\* a params file and no regular file <prefix>-model
C3_NoParams == InitCall /\ Ctx.params \notin FileKinds
C3_NoModel ==
    /\ InitCall
    /\ last.load.prefix = Ranking
    /\ Ctx.params \in FileKinds
    /\ ~Ctx.model_is_file

\* C3 (as stated): in both cases initialize raises the missing-file error
C3_RaisesMissingArtifact == (C3_NoParams \/ C3_NoModel) => last.err = MissingArtifact

\* C3 (amended): initialize raises IndexError when nothing matches
\* *-params.json, the missing-file error when the first match has no regular
\* file <prefix>-params.json, and, for the ranking prefix with a JSON params
\* file and no model file, the generic MemoryError with the missing-file
\* error only logged
C3_MissingFileErrors ==
    InitCall =>
        /\ Len(Ctx.glob) = 0 => last.err = IndexError
        /\ (Len(Ctx.glob) > 0 /\ Ctx.params \notin FileKinds)
              => last.err = MissingArtifact
        /\ (C3_NoModel /\ Ctx.params # "garbage")
              => (last.err = InitializationFailure /\ last.load.logged = MissingArtifact)

C3_Witness ==
    /\ InitCall
    /\ Len(Ctx.glob) > 0
    /\ Ctx.params = "dir"
    /\ last.err = MissingArtifact

\* C4: with a model type other than the two recognized ones, None included,
\* preprocess, inference and postprocess each raise the unsupported-model
\* error and return nothing
C4_StagesRejectUnsupported ==
    (last.op \in {"preprocess", "inference", "postprocess"} /\ ~Supported(model_type))
        => (last.err = UnsupportedModel /\ last.ret.tag = "None")

C4_Witness ==
    /\ last.op = "postprocess"
    /\ model_type = Str(<<"Other">>)
    /\ Len(last.arg.items) > 0
    /\ last.err = UnsupportedModel

\* C5: with exactly one params file (a JSON document) of a recognized prefix
\* and a matching model file, initialize succeeds and model is the path of
\* <prefix>-model for the ranking type and a loaded vector-model object, not
\* a path, for the similarity type
C5_LoadsArtifact ==
    (/\ InitCall
     /\ Len(Ctx.glob) = 1
     /\ Ctx.params \in {"full", "partial"}
     /\ Ctx.model_is_file
     /\ last.load.prefix \in {Ranking, Similarity})
        => /\ last.err = OK
           /\ last.load.prefix = Ranking =>
                 model = Str(<<"TopicalPageRank", model_suffix>>)
           /\ last.load.prefix = Similarity => model.tag = "object"

\* the prefix initialize derived is what precedes the first suffix of the
\* first name glob returned
PrefixOfFirst ==
    LET p == last.load.prefix.v
        f == Ctx.glob[1]
    IN  /\ last.load.prefix.tag = "str"
        /\ Len(f) > Len(p)
        /\ SubSeq(f, 1, Len(p)) = p
        /\ f[Len(p) + 1] = sym_file_suffix
        /\ \A k \in 1..Len(p) : p[k] # sym_file_suffix

\* C6 (as stated): prefix resolution yields a prefix exactly when one entry
\* matches *-params.json, and fails for zero and for several matches
C6_FailsUnlessUnique ==
    InitCall => (last.load.prefix.tag = "str" <=> Len(Ctx.glob) = 1)

\* C6 (amended): prefix resolution fails, with IndexError, exactly when no
\* entry matches; with one or more matches it yields the prefix of the first
\* entry glob returned and ignores the others
C6_FailsOnlyWhenEmpty ==
    InitCall =>
        /\ Len(Ctx.glob) = 0 => (last.err = IndexError /\ last.load.prefix.tag = "None")
        /\ Len(Ctx.glob) >= 1 => PrefixOfFirst

C6_Witness ==
    /\ InitCall
    /\ Len(Ctx.glob) = 2
    /\ last.load.prefix.tag = "str"
    /\ SplitFirst(Ctx.glob[2]) # last.load.prefix.v

\* C7: once the initialized flag is set, no call of handle, preprocess,
\* inference or postprocess changes model_type, model or model_params, and
\* the flag stays set
C7_FieldsFrozen ==
    [][initialized =>
          /\ initialized'
          /\ model_type' = model_type
          /\ model' = model
          /\ model_params' = model_params]_vars

C7_Witness ==
    /\ HandleOnInitialized
    /\ initialized
    /\ init_err = OK
    /\ last.arg.tag = "list"
    /\ last.err # OK
    /\ model_type = Ranking

RankingRun == last.op = "inference" /\ model_type = Ranking /\ last.err = OK

\* C8 (as stated): ranking inference on n texts uses no extractor for more
\* than one text and returns n entries, the i-th computed from the i-th
\* text only
C8_FreshExtractorPerText ==
    RankingRun =>
        /\ Len(last.ret.items) = Len(last.arg.items)
        /\ \A i, j \in 1..Len(last.run) : last.run[i] = last.run[j] => i = j
        /\ \A i \in 1..Len(last.ret.items) :
              last.ret.items[i].loaded = <<last.arg.items[i]>>

\* C8 (amended): ranking inference on n texts uses one extractor, constructed
\* before the loop, for every text, loading the texts into it one after the
\* other; it returns n entries, the i-th taken from the extractor right after
\* the i-th text was loaded
C8_OneExtractorPerBatch ==
    RankingRun =>
        /\ Len(last.ret.items) = Len(last.arg.items)
        /\ Len(last.run) = Len(last.arg.items)
        /\ \A i, j \in 1..Len(last.run) : last.run[i] = last.run[j]
        /\ \A i \in 1..Len(last.ret.items) :
              /\ last.ret.items[i].extractor = last.run[i]
              /\ last.ret.items[i].loaded = SubSeq(last.arg.items, 1, i)

C8_Witness ==
    /\ RankingRun
    /\ init_err = OK
    /\ Len(last.arg.items) = 2
    /\ last.arg.items[1] # last.arg.items[2]
    /\ Len(last.ret.items) = 2

\* C9: in similarity mode after a successful initialize, preprocess followed
\* by inference on a non-empty batch of decodable entries completes without
\* error and returns one similarity list per input, in order
C9_SimilarityCompletes ==
    (/\ last.op = "ModelHandler.handle"
     /\ init_err = OK
     /\ model_type = Similarity
     /\ Len(last.arg.items) > 0
     /\ \A i \in 1..Len(last.arg.items) : last.arg.items[i].kind = "utf8")
        => /\ last.err = OK
           /\ last.ret.tag = "list"
           /\ Len(last.ret.items) = Len(last.arg.items)

\* C10: initialized implies a recognized model_type and model_params and
\* model set; a failed initialize leaves initialized false
C10_InitializedMeansLoaded ==
    /\ initialized =>
          (Supported(model_type) /\ model_params.tag # "None" /\ model.tag # "None")
    /\ (last.calls = <<"initialize">> /\ last.err # OK) => ~initialized
====
